---------------------------- MODULE Spec2Model ----------------------------
(***************************************************************************)
(* Model of the Table widget (src/src/Table.tsx) and of the demo page that *)
(* mounts it (src/src/App.tsx).                                            *)
(*                                                                         *)
(* The widget owns two pieces of state, currentPage and sortState; the     *)
(* props data, columns and pageSize are fixed for one mounted instance.    *)
(* Everything else (totalPages, sortedData, visibleData, the three column  *)
(* partitions, whether the pagination control is rendered) is recomputed   *)
(* from props and state on every render, and is an operator here.          *)
(*                                                                         *)
(* Two event handlers change the state: the onClick of a sortable header's *)
(* button (SortClick) and the onClick of a pagination button (PageClick).  *)
(*                                                                         *)
(* history is a log of the most recent clicks, each with the state it was  *)
(* made in. It is not read by any handler; the properties that speak of    *)
(* "the click" and of "the state before the click" are stated over it.     *)
(*                                                                         *)
(* Layout-only props and fields (size, scroll, width, render) take no part *)
(* in the state or in the derived row and column sequences and are left    *)
(* out.                                                                    *)
(***************************************************************************)
EXTENDS Integers, Sequences, FiniteSets, TLC

VARIABLES
    data,         \* props.data: the rows, in the order given
    columns,      \* props.columns: the column descriptors, in the order given
    pageSize,     \* props.pageSize (0 is the falsy value that disables paging)
    currentPage,  \* useState(1)
    sortState,    \* useState({columnKey, direction})
    history       \* the last clicks, oldest first (a log, read by no handler)

vars == <<data, columns, pageSize, currentPage, sortState, history>>

----------------------------------------------------------------------------
(* Bounds of the model.                                                    *)

\* Longest row sequence drawn for the props.
MaxRows == 4

\* Field values of the drawn rows range over 1..MaxAge (ties when fewer
\* values than rows are used).
MaxAge == 3

\* Page sizes drawn for the props range over 0..MaxPageSize.
MaxPageSize == 3

\* Longest column list drawn for the props.
MaxColumns == 2

\* Number of clicks the log keeps.
MaxHistory == 2

----------------------------------------------------------------------------
(* Helpers for the JavaScript array operations the component uses.         *)

Min(a, b) == IF a < b THEN a ELSE b

Max(a, b) == IF a > b THEN a ELSE b

\* Array.prototype.reverse.
Reverse(s) == [i \in 1..Len(s) |-> s[Len(s) + 1 - i]]

\* Array.prototype.includes on an array of objects: SameValueZero, which for
\* objects is identity. A column descriptor's title stands for the identity
\* of the object (the props below give every object its own title).
Includes(s, x) == \E i \in 1..Len(s) : s[i] = x

\* Array.prototype.slice(start, end) with 0-based, end-exclusive indices:
\* a negative index counts from the end, and both are clamped to the length.
Slice(s, start, end) ==
    LET len  == Len(s)
        from == IF start < 0 THEN Max(len + start, 0) ELSE Min(start, len)
        to   == IF end < 0 THEN Max(len + end, 0) ELSE Min(end, len)
    IN  IF from >= to THEN <<>> ELSE SubSeq(s, from + 1, to)

\* Math.ceil(a / b) for an integer a >= 0 and an integer b > 0.
MathCeilDiv(a, b) == IF a % b = 0 THEN a \div b ELSE (a \div b) + 1

----------------------------------------------------------------------------
(* Derived values of one render (Table.tsx lines 63-88).                   *)

\* const [currentPage, setCurrentPage] = useState(1);
\* (InitialPageZero starts at the 0-based index of the first page.)
InitialPageZero == 1 - 1

InitialPage == 1

\* const totalPages = pageSize ? Math.ceil(data.length / pageSize) : 1;
totalPages(d, ps) == IF ps # 0 THEN MathCeilDiv(Len(d), ps) ELSE 1

\* a[columnKey]: present when the row has the field, undefined otherwise.
HasField(row, key) == key \in DOMAIN row

\* The comparator without its direction: sortOrder is always 1.
CompareIgnoringDirection(a, b, st) ==
    LET columnKey == st.columnKey
    IN  IF columnKey = "" THEN 0
        ELSE IF ~HasField(a, columnKey) /\ ~HasField(b, columnKey) THEN 0
        ELSE IF ~HasField(a, columnKey) \/ ~HasField(b, columnKey) THEN 1
        ELSE IF a[columnKey] = b[columnKey] THEN 0
        ELSE IF a[columnKey] < b[columnKey] THEN -1 ELSE 1

\* The comparator handed to sort (lines 65-79). Two missing fields are both
\* undefined and strictly equal; undefined against a value is unequal and
\* `<` is false either way, so the last line yields sortOrder * 1.
compare(a, b, st) ==
    LET columnKey == st.columnKey
        sortOrder == IF st.direction = "asc" THEN 1 ELSE -1
    IN  IF columnKey = "" THEN 0
        ELSE IF ~HasField(a, columnKey) /\ ~HasField(b, columnKey) THEN 0
        ELSE IF ~HasField(a, columnKey) \/ ~HasField(b, columnKey) THEN sortOrder
        ELSE IF a[columnKey] = b[columnKey] THEN 0
        ELSE sortOrder * (IF a[columnKey] < b[columnKey] THEN -1 ELSE 1)

\* Array.prototype.sort with a comparator is a stable sort: rows the
\* comparator orders come in that order, rows it calls equal keep their input
\* order. For a comparator that is a consistent ordering (as compare is on
\* rows of one shape whose field is a number, or that all lack the field)
\* this fixes the place of every row: Rank(d, i, st) is the 1-based place of
\* d[i], one more than the number of rows that come before it.
Rank(d, i, st) ==
    Cardinality({ j \in 1..Len(d) :
                    \/ compare(d[j], d[i], st) < 0
                    \/ compare(d[j], d[i], st) = 0 /\ j < i }) + 1

\* const sortedData = [...data].sort(...): a new array, data is not changed.
sortedData(d, st) ==
    LET rank == [i \in 1..Len(d) |-> Rank(d, i, st)]
        from == [k \in 1..Len(d) |-> CHOOSE i \in 1..Len(d) : rank[i] = k]
    IN  [k \in 1..Len(d) |-> d[from[k]]]

\* const startRowIndex = pageSize ? (currentPage - 1) * pageSize : 0;
\* (StartOfNextPage takes currentPage as a 0-based page index.)
StartOfNextPage(page, ps) == IF ps # 0 THEN page * ps ELSE 0

startRowIndex(page, ps) == IF ps # 0 THEN (page - 1) * ps ELSE 0

\* const endRowIndex = pageSize ? startRowIndex + pageSize : data.length;
\* (EndUnguarded leaves out the test of pageSize.)
EndUnguarded(d, page, ps) == startRowIndex(page, ps) + ps

endRowIndex(d, page, ps) ==
    IF ps # 0 THEN startRowIndex(page, ps) + ps ELSE Len(d)

\* const visibleData = sortedData.slice(startRowIndex, endRowIndex);
visibleData(d, st, page, ps) ==
    Slice(sortedData(d, st), startRowIndex(page, ps), endRowIndex(d, page, ps))

\* Array.prototype.filter, for the three predicates the component uses.
RECURSIVE FilterFixed(_, _)
FilterFixed(cols, side) ==
    IF cols = <<>> THEN <<>>
    ELSE IF Head(cols).fixed = side
         THEN <<Head(cols)>> \o FilterFixed(Tail(cols), side)
         ELSE FilterFixed(Tail(cols), side)

RECURSIVE FilterNotIn(_, _, _)
FilterNotIn(cols, left, right) ==
    IF cols = <<>> THEN <<>>
    ELSE IF ~Includes(left, Head(cols)) /\ ~Includes(right, Head(cols))
         THEN <<Head(cols)>> \o FilterNotIn(Tail(cols), left, right)
         ELSE FilterNotIn(Tail(cols), left, right)

RECURSIVE FilterKeyNotIn(_, _, _)
FilterKeyNotIn(cols, left, right) ==
    IF cols = <<>> THEN <<>>
    ELSE IF /\ \A i \in 1..Len(left) : left[i].key # Head(cols).key
            /\ \A i \in 1..Len(right) : right[i].key # Head(cols).key
         THEN <<Head(cols)>> \o FilterKeyNotIn(Tail(cols), left, right)
         ELSE FilterKeyNotIn(Tail(cols), left, right)

\* columns.filter((column) => column.fixed === "left")
fixedLeftColumns(cols) == FilterFixed(cols, "left")

\* columns.filter((column) => column.fixed === "right").reverse()
fixedRightColumns(cols) == Reverse(FilterFixed(cols, "right"))

\* columns.filter(column => !fixedLeftColumns.includes(column)
\*                          && !fixedRightColumns.includes(column))
\* (NoFixedByKey tells columns apart by their key instead.)
NoFixedByKey(cols) ==
    FilterKeyNotIn(cols, fixedLeftColumns(cols), fixedRightColumns(cols))

nofixedColumns(cols) ==
    FilterNotIn(cols, fixedLeftColumns(cols), fixedRightColumns(cols))

\* The header row: left-fixed, then unfixed, then right-fixed (lines 142-157).
headerColumns(cols) ==
    fixedLeftColumns(cols) \o nofixedColumns(cols) \o fixedRightColumns(cols)

\* {totalPages > 1 && pagination}
paginationRendered(d, ps) == totalPages(d, ps) > 1

\* Array.from(Array(totalPages).keys()).map(pageNumber => ... pageNumber + 1):
\* the numbers on the pagination buttons, present when the control is rendered.
pageButtons(d, ps) ==
    IF paginationRendered(d, ps) THEN 1..totalPages(d, ps) ELSE {}

----------------------------------------------------------------------------
(* The click log.                                                          *)

\* The log after one more click, keeping the last `depth` clicks.
Record(h, e, depth) ==
    LET all == Append(h, e)
    IN  IF Len(all) <= depth THEN all
        ELSE SubSeq(all, Len(all) - depth + 1, Len(all))

SortEvent(key) ==
    [type |-> "sort", key |-> key, page |-> 0,
     pre |-> [currentPage |-> currentPage, sortState |-> sortState]]

PageEvent(n) ==
    [type |-> "page", key |-> "", page |-> n,
     pre |-> [currentPage |-> currentPage, sortState |-> sortState]]

----------------------------------------------------------------------------
(* The two event handlers.                                                 *)

Opposite(direction) == IF direction = "asc" THEN "desc" ELSE "asc"

\* The handler without setCurrentPage(1).
SortClickKeepingPage(i, depth) ==
    /\ i \in 1..Len(columns)
    /\ columns[i].sortable
    /\ sortState' = [columnKey |-> columns[i].key,
                     direction |-> Opposite(sortState.direction)]
    /\ currentPage' = currentPage
    /\ history' = Record(history, SortEvent(columns[i].key), depth)
    /\ UNCHANGED <<data, columns, pageSize>>

\* The handler with a direction remembered per column: a newly chosen column
\* starts ascending.
SortClickPerColumn(i, depth) ==
    /\ i \in 1..Len(columns)
    /\ columns[i].sortable
    /\ sortState' = [columnKey |-> columns[i].key,
                     direction |-> IF sortState.columnKey = columns[i].key
                                   THEN Opposite(sortState.direction)
                                   ELSE "asc"]
    /\ currentPage' = 1
    /\ history' = Record(history, SortEvent(columns[i].key), depth)
    /\ UNCHANGED <<data, columns, pageSize>>

\* onClick of the button in the header of columns[i] (lines 117-126); the
\* button exists only for a sortable column.
SortClick(i, depth) ==
    /\ i \in 1..Len(columns)
    /\ columns[i].sortable
    /\ sortState' = [columnKey |-> columns[i].key,
                     direction |-> Opposite(sortState.direction)]
    /\ currentPage' = 1
    /\ history' = Record(history, SortEvent(columns[i].key), depth)
    /\ UNCHANGED <<data, columns, pageSize>>

\* The handler with setCurrentPage(pageNumber), the 0-based index.
PageClickZeroBased(n, depth) ==
    /\ n \in pageButtons(data, pageSize)
    /\ currentPage' = n - 1
    /\ history' = Record(history, PageEvent(n), depth)
    /\ UNCHANGED <<data, columns, pageSize, sortState>>

\* onClick of pagination button n (lines 264-267); the buttons exist only
\* when the pagination control is rendered.
PageClick(n, depth) ==
    /\ n \in pageButtons(data, pageSize)
    /\ currentPage' = n
    /\ history' = Record(history, PageEvent(n), depth)
    /\ UNCHANGED <<data, columns, pageSize, sortState>>

----------------------------------------------------------------------------
(* Props.                                                                  *)

Directions == {"asc", "desc"}

\* Rows of the shape {id, age}: id is the position in the input, ages as given.
RowsOfAges(ages) == [i \in 1..Len(ages) |-> [id |-> i - 1, age |-> ages[i]]]

\* Every row sequence of at most MaxRows rows with ages in 1..MaxAge.
AllData ==
    { RowsOfAges(a) : a \in UNION { [1..n -> 1..MaxAge] : n \in 0..MaxRows } }

\* One row sequence per length, ages descending so that sorting reorders it.
RampData ==
    { RowsOfAges([i \in 1..n |-> n + 1 - i]) : n \in 0..MaxRows }

\* A column list in the manner of App.tsx: two left-fixed columns, sortable
\* and plain unfixed columns with a repeated key, two right-fixed columns.
DemoColumns ==
    << [key |-> "id",  title |-> "ID",       sortable |-> TRUE,  fixed |-> "left"],
       [key |-> "age", title |-> "Age",      sortable |-> TRUE,  fixed |-> "none"],
       [key |-> "age", title |-> "Column 1", sortable |-> FALSE, fixed |-> "none"],
       [key |-> "id",  title |-> "Column 2", sortable |-> FALSE, fixed |-> "right"],
       [key |-> "age", title |-> "Column 3", sortable |-> FALSE, fixed |-> "right"] >>

\* Every column list of at most MaxColumns descriptors; each descriptor is
\* its own object, named by its title.
ColumnShapes ==
    [key : {"id", "age"}, sortable : BOOLEAN, fixed : {"left", "right", "none"}]

AllColumnLists ==
    { [i \in 1..Len(s) |->
          [key |-> s[i].key, title |-> "Column " \o ToString(i),
           sortable |-> s[i].sortable, fixed |-> s[i].fixed]]
      : s \in UNION { [1..n -> ColumnShapes] : n \in 0..MaxColumns } }

\* The state after mounting with the given props (lines 42-46).
Mount(d, cols, ps, defaultSortColumn, defaultSortDirection) ==
    /\ data = d
    /\ columns = cols
    /\ pageSize = ps
    /\ currentPage = InitialPage
    /\ sortState = [columnKey |-> defaultSortColumn,
                    direction |-> defaultSortDirection]
    /\ history = <<>>

----------------------------------------------------------------------------
(* Spec: the widget under clicks, with the click log.                      *)

Init ==
    \E d \in RampData, ps \in 0..MaxPageSize,
       col \in {"", "age"}, dir \in Directions :
        Mount(d, DemoColumns, ps, col, dir)

Next ==
    \/ \E i \in 1..Len(columns) : SortClick(i, MaxHistory)
    \/ \E n \in pageButtons(data, pageSize) : PageClick(n, MaxHistory)

Spec == Init /\ [][Next]_vars

----------------------------------------------------------------------------
(* SpecProps: the widget under clicks for every drawn row sequence, page   *)
(* size, default sort and column list; the click log is not kept.          *)

InitProps ==
    \/ \E d \in AllData, ps \in 0..MaxPageSize,
          col \in {"", "age"}, dir \in Directions :
           Mount(d, DemoColumns, ps, col, dir)
    \/ \E cols \in AllColumnLists, col \in {"id", "name"} :
           Mount(RowsOfAges(<<2, 1, 2>>), cols, 2, col, "asc")

NextProps ==
    \/ \E i \in 1..Len(columns) : SortClick(i, 0)
    \/ \E n \in pageButtons(data, pageSize) : PageClick(n, 0)

SpecProps == InitProps /\ [][NextProps]_vars

----------------------------------------------------------------------------
(* SpecApp: the widget as App.tsx mounts it, under clicks, with the log.   *)

AppRowCount == 100

AppPageSize == 10

\* for (let i = 0; i < 100; i++) data.push({id: i, name: `Edward ${i}`,
\*                                          age: i + 1, gender: `male. ${i}`})
AppData ==
    [n \in 1..AppRowCount |->
        [id     |-> n - 1,
         name   |-> "Edward " \o ToString(n - 1),
         age    |-> n,
         gender |-> "male. " \o ToString(n - 1)]]

\* An omitted `sortable` is undefined (falsy), an omitted `fixed` is "none".
AppColumns ==
    << [key |-> "id",     title |-> "ID",       sortable |-> FALSE, fixed |-> "left"],
       [key |-> "name",   title |-> "Name",     sortable |-> FALSE, fixed |-> "left"],
       [key |-> "age",    title |-> "Age",      sortable |-> TRUE,  fixed |-> "none"],
       [key |-> "name",   title |-> "Column1",  sortable |-> FALSE, fixed |-> "none"],
       [key |-> "name",   title |-> "Column 2", sortable |-> FALSE, fixed |-> "none"],
       [key |-> "name",   title |-> "Column 3", sortable |-> FALSE, fixed |-> "none"],
       [key |-> "name",   title |-> "Column 4", sortable |-> FALSE, fixed |-> "none"],
       [key |-> "name",   title |-> "Column 5", sortable |-> FALSE, fixed |-> "none"],
       [key |-> "name",   title |-> "Column 6", sortable |-> FALSE, fixed |-> "none"],
       [key |-> "name",   title |-> "Column 7", sortable |-> FALSE, fixed |-> "none"],
       [key |-> "name",   title |-> "Column 8", sortable |-> FALSE, fixed |-> "none"],
       [key |-> "gender", title |-> "Gender",   sortable |-> FALSE, fixed |-> "right"] >>

\* <Table data={data} columns={columns} defaultSortColumn="age"
\*        defaultSortDirection="asc" pageSize={10} ... />
InitApp == Mount(AppData, AppColumns, AppPageSize, "age", "asc")

NextApp ==
    \/ \E i \in 1..Len(columns) : SortClick(i, MaxHistory)
    \/ \E n \in pageButtons(data, pageSize) : PageClick(n, MaxHistory)

SpecApp == InitApp /\ [][NextApp]_vars

----------------------------------------------------------------------------
(* Vocabulary of the properties.                                           *)

\* Concatenation of a sequence of sequences, in order.
RECURSIVE Flatten(_)
Flatten(ss) == IF ss = <<>> THEN <<>> ELSE Head(ss) \o Flatten(Tail(ss))

\* The slices of pages 1..totalPages, in page order.
allPages(d, st, ps) ==
    [p \in 1..totalPages(d, ps) |-> visibleData(d, st, p, ps)]

\* n is the ceiling of a / b, by its defining inequalities.
IsCeiling(n, a, b) == n * b >= a /\ (n - 1) * b < a

\* The rows of s, as the set of their ids (ids are unique within data).
IdSet(s) == { s[i].id : i \in 1..Len(s) }

Ids(s) == [i \in 1..Len(s) |-> s[i].id]

Ages(s) == [i \in 1..Len(s) |-> s[i].age]

\* s holds every row of d exactly once.
IsPermutationOf(s, d) ==
    /\ Len(s) = Len(d)
    /\ \A i \in 1..Len(d) : Cardinality({ j \in 1..Len(s) : s[j] = d[i] }) = 1

\* No row of s is ordered after a later row by the sort state.
IsOrderedBy(s, st) ==
    \A i, j \in 1..Len(s) :
        (i < j /\ st.columnKey # "" /\ HasField(s[i], st.columnKey)
               /\ HasField(s[j], st.columnKey)) =>
            IF st.direction = "asc"
            THEN s[i][st.columnKey] <= s[j][st.columnKey]
            ELSE s[i][st.columnKey] >= s[j][st.columnKey]

\* The values of field key are pairwise distinct in d.
DistinctIn(d, key) ==
    \A i, j \in 1..Len(d) : i # j => d[i][key] # d[j][key]

\* The position at which column c is declared (one object, one title).
Declared(c) == CHOOSE i \in 1..Len(columns) : columns[i] = c

\* The latest click of the log, when there is one.
LastClick == history[Len(history)]

Visible == visibleData(data, sortState, currentPage, pageSize)

Sorted == sortedData(data, sortState)

Pages == totalPages(data, pageSize)

----------------------------------------------------------------------------
(* Properties of the derived values, under SpecProps.                      *)

\* C1: totalPages is ceil(rowCount / pageSize) for every positive pageSize
\* and row count >= 0, with a minimum of one page: it is 1 whenever paging is
\* disabled (pageSize 0) or there are no rows.
C1_TotalPagesOneWhenEmpty ==
    /\ (pageSize > 0 /\ Len(data) > 0) => IsCeiling(Pages, Len(data), pageSize)
    /\ (pageSize = 0 \/ Len(data) = 0) => Pages = 1

\* C3: the slices of pages 1..totalPages, concatenated in page order, are
\* exactly the sorted row sequence: every row of data once, in sorted order.
C3_PagesCoverSortedData ==
    LET all == Flatten(allPages(data, sortState, pageSize))
    IN  /\ all = Sorted
        /\ IsPermutationOf(all, data)
        /\ IsOrderedBy(all, sortState)

\* Several pages, the last one short, and a sort that reorders the rows.
C3_Witness ==
    /\ Pages >= 2
    /\ Len(data) % pageSize # 0
    /\ Sorted # data
    /\ sortState.columnKey = "age"

\* C4: when the values of the sort field are pairwise distinct, the order
\* sorted descending is the reverse of the order sorted ascending.
C4_DescendingIsReverse ==
    \A key \in {"id", "age"} :
        DistinctIn(data, key) =>
            sortedData(data, [columnKey |-> key, direction |-> "desc"])
                = Reverse(sortedData(data, [columnKey |-> key, direction |-> "asc"]))

\* Three rows of distinct ages given neither ascending nor descending, shown
\* sorted by age descending.
C4_Witness ==
    /\ Len(data) >= 3
    /\ DistinctIn(data, "age")
    /\ sortState = [columnKey |-> "age", direction |-> "desc"]
    /\ Sorted # data
    /\ Sorted # Reverse(data)
    /\ Sorted = Reverse(sortedData(data, [columnKey |-> "age", direction |-> "asc"]))

\* C5: the three partitions are pairwise disjoint and, concatenated, hold
\* every declared column exactly once, also when keys repeat; left-fixed and
\* unfixed columns keep declaration order, right-fixed columns are in reverse
\* declaration order.
C5_PartitionOfColumns ==
    LET left  == fixedLeftColumns(columns)
        mid   == nofixedColumns(columns)
        right == fixedRightColumns(columns)
    IN  /\ \A i \in 1..Len(left) :
               ~Includes(mid, left[i]) /\ ~Includes(right, left[i])
        /\ \A i \in 1..Len(mid) : ~Includes(right, mid[i])
        /\ headerColumns(columns) = left \o mid \o right
        /\ IsPermutationOf(headerColumns(columns), columns)
        /\ \A i, j \in 1..Len(left) : i < j => Declared(left[i]) < Declared(left[j])
        /\ \A i, j \in 1..Len(mid) : i < j => Declared(mid[i]) < Declared(mid[j])
        /\ \A i, j \in 1..Len(right) : i < j => Declared(right[i]) > Declared(right[j])

\* A key shared by a fixed and an unfixed column, and two right-fixed columns.
C5_Witness ==
    /\ \E i, j \in 1..Len(columns) :
           /\ columns[i].key = columns[j].key
           /\ columns[i].fixed # "none"
           /\ columns[j].fixed = "none"
    /\ Len(fixedRightColumns(columns)) >= 2
    /\ Len(nofixedColumns(columns)) >= 2

\* C7: with pageSize 0 the visible slice is the whole sorted row sequence, on
\* a single page, and the pagination control is not rendered; and the
\* pagination control is rendered exactly when totalPages > 1.
C7_PagingDisabled ==
    /\ pageSize = 0 =>
           /\ Visible = Sorted
           /\ Len(Visible) = Len(data)
           /\ Pages = 1
           /\ ~paginationRendered(data, pageSize)
           /\ pageButtons(data, pageSize) = {}
    /\ paginationRendered(data, pageSize) <=> Pages > 1

\* Paging disabled with several rows that the sort reorders.
C7_Witness ==
    /\ pageSize = 0
    /\ Len(data) >= 2
    /\ Sorted # data
    /\ Len(Visible) = Len(data)

----------------------------------------------------------------------------
(* Properties of the clicks, under Spec.                                   *)

\* C2: a click on a sortable header's button leaves currentPage at 1,
\* whatever the page, column and direction before the click.
C2_SortClickResetsPage ==
    (history # <<>> /\ LastClick.type = "sort") => currentPage = 1

\* A sort click made on a later page, with a column already active.
C2_Witness ==
    /\ history # <<>>
    /\ LastClick.type = "sort"
    /\ LastClick.pre.currentPage > 1
    /\ LastClick.pre.sortState.columnKey # ""
    /\ currentPage = 1

\* C8: a click on the button of a sortable column with key k leaves the sort
\* state at columnKey k and the opposite of the direction before the click,
\* whether or not k was the active column; hence two clicks in a row on
\* different sortable columns leave the direction as it was before them.
C8_SortClickFlipsDirection ==
    /\ (history # <<>> /\ LastClick.type = "sort") =>
           sortState = [columnKey |-> LastClick.key,
                        direction |-> Opposite(LastClick.pre.sortState.direction)]
    /\ \A i \in 1..(Len(history) - 1) :
           (/\ i + 1 = Len(history)
            /\ history[i].type = "sort"
            /\ history[i + 1].type = "sort"
            /\ history[i].key # history[i + 1].key) =>
               sortState.direction = history[i].pre.sortState.direction

\* Two clicks in a row on different sortable columns.
C8_Witness ==
    /\ Len(history) >= 2
    /\ LastClick.type = "sort"
    /\ history[Len(history) - 1].type = "sort"
    /\ history[Len(history) - 1].key # LastClick.key
    /\ LastClick.pre.sortState.columnKey # LastClick.key
    /\ sortState.direction = history[Len(history) - 1].pre.sortState.direction

\* C9: a click on pagination button n, 1 <= n <= totalPages, leaves
\* currentPage at n and the sort state as before; when n was the current page
\* the state after the click is the state before it.
C9_PageClickSetsPage ==
    (history # <<>> /\ LastClick.type = "page") =>
        /\ LastClick.page \in 1..Pages
        /\ currentPage = LastClick.page
        /\ sortState = LastClick.pre.sortState
        /\ LastClick.page = LastClick.pre.currentPage =>
               /\ currentPage = LastClick.pre.currentPage
               /\ sortState = LastClick.pre.sortState

\* A click on another page's button followed by a click on the button of the
\* page then current, with a sort column active.
C9_Witness ==
    /\ Len(history) >= 2
    /\ history[Len(history) - 1].type = "page"
    /\ history[Len(history) - 1].page # history[Len(history) - 1].pre.currentPage
    /\ LastClick.type = "page"
    /\ LastClick.page = LastClick.pre.currentPage
    /\ LastClick.page > 1
    /\ sortState.columnKey # ""

\* C10: with at least one row and a positive pageSize, after any clicks
\* 1 <= currentPage <= totalPages, and the visible slice is neither empty
\* nor longer than pageSize.
C10_PageInRange ==
    (Len(data) >= 1 /\ pageSize > 0) =>
        /\ 1 <= currentPage
        /\ currentPage <= Pages
        /\ Len(Visible) >= 1
        /\ Len(Visible) <= pageSize

\* The last page, shorter than pageSize, reached by a click.
C10_Witness ==
    /\ history # <<>>
    /\ LastClick.type = "page"
    /\ pageSize > 0
    /\ Pages >= 2
    /\ currentPage = Pages
    /\ Len(data) % pageSize # 0
    /\ Len(Visible) = Len(data) % pageSize

----------------------------------------------------------------------------
(* The scenario of App.tsx, under SpecApp.                                 *)

\* C6: with the 100 rows of App.tsx (id 0..99, age id+1), default sort age
\* ascending and pageSize 10, the initial state shows page 1 with ids 0..9 in
\* that order; after one click on the Age header the direction is descending,
\* currentPage is 1 and the visible rows are ids 90..99 (ages 91..100), the
\* oldest first. (The log is empty only before the first click and holds one
\* click only after exactly one, as it keeps MaxHistory >= 2 clicks.)
C6_AppScenario ==
    /\ history = <<>> =>
           /\ currentPage = 1
           /\ sortState = [columnKey |-> "age", direction |-> "asc"]
           /\ Ids(Visible) = [i \in 1..10 |-> i - 1]
           /\ Ages(Visible) = [i \in 1..10 |-> i]
    /\ (Len(history) = 1 /\ history[1].type = "sort" /\ history[1].key = "age") =>
           /\ sortState = [columnKey |-> "age", direction |-> "desc"]
           /\ currentPage = 1
           /\ IdSet(Visible) = 90..99
           /\ Ids(Visible) = [i \in 1..10 |-> 100 - i]
           /\ Ages(Visible) = [i \in 1..10 |-> 101 - i]

\* The state after exactly one click, on the Age header.
C6_Witness ==
    /\ Len(history) = 1
    /\ history[1].type = "sort"
    /\ history[1].key = "age"
    /\ history[1].pre.sortState.direction = "asc"
    /\ sortState.direction = "desc"
    /\ IdSet(Visible) = 90..99

=============================================================================
